---- MODULE Spec2Model ----
(***************************************************************************)
(* The GDAX stream handler of trade-rs (src/api/gdax/wss.rs): one          *)
(* HandlerImpl per WebSocket connection, decoding inbound frames into      *)
(* normalized notifications, and the Order-Id Registry it shares with the  *)
(* REST path.                                                              *)
(*                                                                         *)
(* Ghost state (not in the program): `src` (which frame and which map      *)
(* entry produced each notification), `written` (who inserted what into    *)
(* the registry), `last` (the operation that produced the current state,   *)
(* with the length of the channel and the SubscriptionState before it)     *)
(* and `nframes`.  Timestamps generated locally (`timestamped()`, used     *)
(* for order-book levels) are left out of the notifications; the ones      *)
(* converted from the frame are kept.                                      *)
(*                                                                         *)
(* Assumed of the environment: the consumer keeps the receiving end of     *)
(* the channel (unbounded_send(..).unwrap() does not panic), and sizes     *)
(* stay within the integer range of Size (no overflow in `order.size -=    *)
(* size`), and the socket accepts the subscription request (out.send       *)
(* returns Ok).  In Spec, connection 1 is the connection under study, of   *)
(* a client without credentials, and connection 2 is a stream the client   *)
(* has not spawned; SpecOpen is the same connection of a client with or    *)
(* without credentials, SpecTwo two connections of one client.             *)
(***************************************************************************)
EXTENDS Integers, Sequences, FiniteSets, TLC

VARIABLES flags, state, orders, out, open, registry, nframes, src, written, last,
          clientKeys, sent

vars == <<flags, state, orders, out, open, registry, nframes, src, written, last,
          clientKeys, sent>>

\* ---------------------------------------------------------------- bounds
\* Frames handled per connection.
MaxFrames == 3

\* Frames handled per connection when two connections run side by side.
MaxFramesTwo == 2

\* ------------------------------------------------------------- constants
Conns == {1, 2}

ORDER_BOOK == "ORDER_BOOK"
TRADES == "TRADES"
ORDERS == "ORDERS"
AllFlags == {ORDER_BOOK, TRADES, ORDERS}

\* bitflags `contains`: every bit of `wanted` is set in `fl`.
Contains(fl, wanted) == wanted \subseteq fl

NotSubscribed == "NotSubscribed"
Subscribed == "Subscribed"

\* Option<&str>::None on the wire, and an absent registry entry.
None == "<none>"

ExIds == {"srv1", "srv2"}
ClientIds == {"abc"}
RegKeys == ClientIds \cup ExIds

\* ------------------------------------------------------ wire decimals
\* A wire decimal string is its digits `mant` with `scale` digits after
\* the point ("0.4" is mant 4, scale 1); ok = FALSE is an unparsable one.
Dec(m, s) == [ok |-> TRUE, mant |-> m, scale |-> s]
BadDec == [ok |-> FALSE, mant |-> 0, scale |-> 0]

\* Tick resolutions of the symbol, as digits after the point:
\* price tick 0.01, size tick 0.1.
PriceScale == 2
SizeScale == 1

RECURSIVE Pow10(_)
Pow10(n) == IF n = 0 THEN 1 ELSE 10 * Pow10(n - 1)

\* Tick::ticked: exact conversion to a count of ticks, an error when the
\* string does not parse or has more precision than the tick.
Ticked(d, scale) ==
    IF ~d.ok THEN [ok |-> FALSE, val |-> 0]
    ELSE IF d.scale > scale THEN [ok |-> FALSE, val |-> 0]
    ELSE [ok |-> TRUE, val |-> d.mant * Pow10(scale - d.scale)]

\* A wire time string: whole seconds, or unparsable.
Time(s) == [ok |-> TRUE, sec |-> s]
BadTime == [ok |-> FALSE, sec |-> 0]

\* convert_str_timestamp: milliseconds since the epoch.
ConvertStrTimestamp(t) ==
    IF t.ok THEN [ok |-> TRUE, val |-> t.sec * 1000] ELSE [ok |-> FALSE, val |-> 0]

\* HandlerImpl::convert_gdax_side
ConvertGdaxSide(side) ==
    IF side = "buy" THEN [ok |-> TRUE, val |-> "Bid"]
    ELSE IF side = "sell" THEN [ok |-> TRUE, val |-> "Ask"]
    ELSE [ok |-> FALSE, val |-> "Bid"]

\* HandlerImpl::convert_gdax_update
ConvertGdaxUpdate(l, side) ==
    LET p == Ticked(l.price, PriceScale)
        s == Ticked(l.size, SizeScale)
    IN  IF ~p.ok \/ ~s.ok THEN [ok |-> FALSE, val |-> [side |-> side, price |-> 0, size |-> 0]]
        ELSE [ok |-> TRUE, val |-> [side |-> side, price |-> p.val, size |-> s.val]]

\* ------------------------------------------------------------- frames
\* `decodes` says whether the frame deserializes into the schema of its
\* type tag; a frame that is not JSON with a string "type" has no envelope.
T1 == Time(1)
P50 == Dec(5000, 2)
S1 == Dec(10, 1)
S04 == Dec(4, 1)
SFine == Dec(5, 2)
L1 == [price |-> Dec(10000, 2), size |-> Dec(2, 0)]
L2 == [price |-> Dec(10100, 2), size |-> Dec(3, 0)]
LBad == [price |-> BadDec, size |-> Dec(3, 0)]

Garbage == [type |-> "", envelope |-> FALSE, decodes |-> FALSE]
SubscribeFrame == [type |-> "subscribe", envelope |-> TRUE, decodes |-> TRUE]
OtherFrame == [type |-> "heartbeat", envelope |-> TRUE, decodes |-> TRUE]

Snapshot(b, a) ==
    [type |-> "snapshot", envelope |-> TRUE, decodes |-> TRUE, bids |-> b, asks |-> a]
L2Update(ch) ==
    [type |-> "l2update", envelope |-> TRUE, decodes |-> TRUE, changes |-> ch]
Match(t, s, p, sd, m, k, pr) ==
    [type |-> "match", envelope |-> TRUE, decodes |-> TRUE, time |-> t, size |-> s,
     price |-> p, side |-> sd, maker_order_id |-> m, taker_order_id |-> k,
     profile_id |-> pr]
Received(t, c, o, s, p, sd) ==
    [type |-> "received", envelope |-> TRUE, decodes |-> TRUE, time |-> t,
     client_oid |-> c, order_id |-> o, size |-> s, price |-> p, side |-> sd]
Done(r, o, t) ==
    [type |-> "done", envelope |-> TRUE, decodes |-> TRUE, reason |-> r,
     order_id |-> o, time |-> t]
ErrorFrame(m, r) ==
    [type |-> "error", envelope |-> TRUE, decodes |-> TRUE, message |-> m, reason |-> r]
Malformed(f) == [f EXCEPT !.decodes = FALSE]

Change(sd, l) == [side |-> sd, price |-> l.price, size |-> l.size]

SnapshotFrames ==
    { Snapshot(<<L1>>, <<L2>>), Snapshot(<<L2, L1>>, <<L1, L2>>),
      Snapshot(<<L1>>, <<LBad>>), Malformed(Snapshot(<<>>, <<>>)) }

L2UpdateFrames ==
    { L2Update(<<>>), L2Update(<<Change("sell", L2), Change("buy", L1)>>),
      L2Update(<<Change("hold", L1)>>), Malformed(L2Update(<<>>)) }

MatchFrames ==
    { Match(T1, S04, P50, "sell", "srv2", "srv1", "me"),
      Match(T1, S1, P50, "sell", "srv2", "srv1", "me"),
      Match(T1, S04, P50, "sell", "srv1", "srv2", "me"),
      Match(T1, S04, P50, "buy", "srv2", "srv1", None),
      Match(T1, SFine, P50, "sell", "srv2", "srv1", "me"),
      Match(T1, S04, P50, "hold", "srv2", "srv1", "me"),
      Malformed(Match(T1, S04, P50, "sell", "srv2", "srv1", "me")) }

ReceivedFrames ==
    { Received(T1, "abc", "srv1", S1, P50, "buy"),
      Received(T1, "abc", "srv1", S04, P50, "buy"),
      Received(T1, "abc", "srv2", S04, P50, "sell"),
      Received(T1, None, "srv2", S1, P50, "buy"),
      Received(T1, "abc", "srv1", S1, P50, "hold"),
      Received(BadTime, "abc", "srv1", S1, P50, "buy"),
      Malformed(Received(T1, "abc", "srv1", S1, P50, "buy")) }

DoneFrames ==
    { Done("canceled", "srv1", T1), Done("filled", "srv1", T1),
      Done("canceled", "srv1", BadTime), Malformed(Done("canceled", "srv1", T1)) }

ErrorFrames ==
    { ErrorFrame("boom", None), ErrorFrame("boom", "why"),
      Malformed(ErrorFrame("boom", None)) }

Frames ==
    {Garbage, SubscribeFrame, OtherFrame} \cup SnapshotFrames \cup L2UpdateFrames
    \cup MatchFrames \cup ReceivedFrames \cup DoneFrames \cup ErrorFrames

\* The (client id, exchange id) pairs the REST order responses carry.
RestPairs == {<<"abc", "srv1">>}

\* ------------------------------------------------------ notifications
Trade(size, price, side, ts) ==
    [kind |-> "Trade", size |-> size, price |-> price, maker_side |-> side,
     timestamp |-> ts]
LimitUpdates(ups) == [kind |-> "LimitUpdates", updates |-> ups]
OrderConfirmation(o, ts) ==
    [kind |-> "OrderConfirmation", order_id |-> o.order_id, price |-> o.price,
     size |-> o.size, side |-> o.side, timestamp |-> ts]
OrderUpdate(id, csize, cprice, rem, ts) ==
    [kind |-> "OrderUpdate", order_id |-> id, consumed_size |-> csize,
     consumed_price |-> cprice, remaining_size |-> rem, commission |-> 0,
     timestamp |-> ts]
OrderExpiration(id, ts) ==
    [kind |-> "OrderExpiration", order_id |-> id, timestamp |-> ts]

\* ------------------------------------------------- Order-Id Registry
\* Mutant: the map written in the direction the comment at the call
\* names (server order id => client order id).
InsertSwapped(reg, k, v) == [reg EXCEPT ![v] = k]

\* CHashMap::insert: atomic, replaces the value of an existing key.
Insert(reg, k, v) == [reg EXCEPT ![k] = v]

\* CHashMap::get, as the REST path uses it.
Lookup(reg, k) == reg[k]

\* ----------------------------------------------------- parse_message
\* The outcome of handling one frame on connection c: the result, the
\* fields of the handler afterwards, the registry afterwards, the
\* notifications sent (with, for each, the key of the order-map entry it
\* came from) and the registry inserts made.
Outcome(res, st, ords, reg, emit, keys, ins) ==
    [res |-> res, state |-> st, orders |-> ords, registry |-> reg,
     emit |-> emit, keys |-> keys, ins |-> ins]

Untouched(c, res) == Outcome(res, state[c], orders[c], registry, <<>>, <<>>, {})

Emit(c, notifs) ==
    Outcome("Ok", state[c], orders[c], registry, notifs,
            [i \in 1..Len(notifs) |-> None], {})

\* Mutant: a second `subscribe` is treated as a protocol error.
ArmSubscribeStrict(c, f) ==
    IF state[c] # NotSubscribed THEN Untouched(c, "Err")
    ELSE Outcome("Ok", Subscribed, orders[c], registry, <<>>, <<>>, {})

ArmSubscribe(c, f) ==
    Outcome("Ok", Subscribed, orders[c], registry, <<>>, <<>>, {})

SnapshotGuard(c) == Contains(flags[c], {ORDER_BOOK})

\* Mutant: the two sides are chained the other way round.
ArmSnapshotAsksFirst(c, f) ==
    IF ~f.decodes THEN Untouched(c, "Err")
    ELSE
      LET bid == [i \in 1..Len(f.bids) |-> ConvertGdaxUpdate(f.bids[i], "Bid")]
          ask == [i \in 1..Len(f.asks) |-> ConvertGdaxUpdate(f.asks[i], "Ask")]
          all == ask \o bid
      IN  IF \E i \in 1..Len(all) : ~all[i].ok THEN Untouched(c, "Err")
          ELSE Emit(c, <<LimitUpdates([i \in 1..Len(all) |-> all[i].val])>>)

ArmSnapshot(c, f) ==
    IF ~f.decodes THEN Untouched(c, "Err")
    ELSE
      LET bid == [i \in 1..Len(f.bids) |-> ConvertGdaxUpdate(f.bids[i], "Bid")]
          ask == [i \in 1..Len(f.asks) |-> ConvertGdaxUpdate(f.asks[i], "Ask")]
          all == bid \o ask
      IN  IF \E i \in 1..Len(all) : ~all[i].ok THEN Untouched(c, "Err")
          ELSE Emit(c, <<LimitUpdates([i \in 1..Len(all) |-> all[i].val])>>)

L2UpdateGuard(c) == Contains(flags[c], {ORDER_BOOK})

ConvertChange(ch) ==
    LET side == ConvertGdaxSide(ch.side)
    IN  IF ~side.ok THEN [ok |-> FALSE, val |-> [side |-> "Bid", price |-> 0, size |-> 0]]
        ELSE ConvertGdaxUpdate(ch, side.val)

\* Mutant: book updates are dropped until the subscription is confirmed.
ArmL2UpdateOnceSubscribed(c, f) ==
    IF ~f.decodes THEN Untouched(c, "Err")
    ELSE
      LET updates == [i \in 1..Len(f.changes) |-> ConvertChange(f.changes[i])]
      IN  IF \E i \in 1..Len(updates) : ~updates[i].ok THEN Untouched(c, "Err")
          ELSE IF Len(updates) = 0 \/ state[c] = NotSubscribed THEN Untouched(c, "Ok")
          ELSE Emit(c, <<LimitUpdates([i \in 1..Len(updates) |-> updates[i].val])>>)

ArmL2Update(c, f) ==
    IF ~f.decodes THEN Untouched(c, "Err")
    ELSE
      LET updates == [i \in 1..Len(f.changes) |-> ConvertChange(f.changes[i])]
      IN  IF \E i \in 1..Len(updates) : ~updates[i].ok THEN Untouched(c, "Err")
          ELSE IF Len(updates) = 0 THEN Untouched(c, "Ok")
          ELSE Emit(c, <<LimitUpdates([i \in 1..Len(updates) |-> updates[i].val])>>)

\* Mutant: the arm is not gated, the payload is always decoded.
MatchGuardAlways(c) == TRUE

MatchGuard(c) == Contains(flags[c], {TRADES, ORDERS})

\* Mutant: the notification names the order by its key in the map.
UpdateOrderByKey(ords, k, size, price, ts) ==
    IF k \in DOMAIN ords
    THEN LET rem == ords[k].size - size
         IN  [orders |-> [ords EXCEPT ![k].size = rem],
              emit |-> <<OrderUpdate(k, size, price, rem, ts)>>,
              keys |-> <<k>>]
    ELSE [orders |-> ords, emit |-> <<>>, keys |-> <<>>]

\* Mutant: the notification is built before the size is decremented.
UpdateOrderStale(ords, k, size, price, ts) ==
    IF k \in DOMAIN ords
    THEN [orders |-> [ords EXCEPT ![k].size = ords[k].size - size],
          emit |-> <<OrderUpdate(ords[k].order_id, size, price, ords[k].size, ts)>>,
          keys |-> <<k>>]
    ELSE [orders |-> ords, emit |-> <<>>, keys |-> <<>>]

\* The update_order closure applied to the entry under key k, if any:
\* the map afterwards and the notification sent.
UpdateOrder(ords, k, size, price, ts) ==
    IF k \in DOMAIN ords
    THEN LET rem == ords[k].size - size
         IN  [orders |-> [ords EXCEPT ![k].size = rem],
              emit |-> <<OrderUpdate(ords[k].order_id, size, price, rem, ts)>>,
              keys |-> <<k>>]
    ELSE [orders |-> ords, emit |-> <<>>, keys |-> <<>>]

AboutUs(c, f) == Contains(flags[c], {ORDERS}) /\ f.profile_id # None

ArmMatch(c, f) ==
    IF ~f.decodes THEN Untouched(c, "Err")
    ELSE
      LET ts == ConvertStrTimestamp(f.time)
          size == Ticked(f.size, SizeScale)
          price == Ticked(f.price, PriceScale)
      IN  IF ~ts.ok \/ ~size.ok \/ ~price.ok THEN Untouched(c, "Err")
          ELSE
            LET taker == IF AboutUs(c, f)
                         THEN UpdateOrder(orders[c], f.taker_order_id, size.val,
                                          price.val, ts.val)
                         ELSE [orders |-> orders[c], emit |-> <<>>, keys |-> <<>>]
                maker == IF AboutUs(c, f)
                         THEN UpdateOrder(taker.orders, f.maker_order_id, size.val,
                                          price.val, ts.val)
                         ELSE [orders |-> orders[c], emit |-> <<>>, keys |-> <<>>]
                ups == taker.emit \o maker.emit
                upkeys == taker.keys \o maker.keys
                side == ConvertGdaxSide(f.side)
            IN  IF ~Contains(flags[c], {TRADES})
                THEN Outcome("Ok", state[c], maker.orders, registry, ups, upkeys, {})
                ELSE IF ~side.ok
                THEN Outcome("Err", state[c], maker.orders, registry, ups, upkeys, {})
                ELSE Outcome("Ok", state[c], maker.orders, registry,
                             Append(ups, Trade(size.val, price.val, side.val, ts.val)),
                             Append(upkeys, None), {})

\* Mutant: the arm is gated by the wrong flag.
ReceivedGuardTrades(c) == Contains(flags[c], {TRADES})

ReceivedGuard(c) == Contains(flags[c], {ORDERS})

\* Mutant: the caller-supplied id is ignored.
ResolvedIdServer(f) == f.order_id

\* The order id specified by the user, which defaults to the server order id.
ResolvedId(f) == IF f.client_oid # None THEN f.client_oid ELSE f.order_id

ArmReceived(c, f) ==
    IF ~f.decodes THEN Untouched(c, "Err")
    ELSE
      LET ts == ConvertStrTimestamp(f.time)
          size == Ticked(f.size, SizeScale)
          price == Ticked(f.price, PriceScale)
          side == ConvertGdaxSide(f.side)
      IN  IF ~ts.ok \/ ~size.ok \/ ~price.ok \/ ~side.ok THEN Untouched(c, "Err")
          ELSE
            LET order == [order_id |-> ResolvedId(f), price |-> price.val,
                          size |-> size.val, side |-> side.val]
                ords == [k \in DOMAIN orders[c] \cup {f.order_id} |->
                            IF k = f.order_id THEN order ELSE orders[c][k]]
            IN  Outcome("Ok", state[c], ords,
                        Insert(registry, ResolvedId(f), f.order_id),
                        <<OrderConfirmation(order, ts.val)>>, <<f.order_id>>,
                        {<<ResolvedId(f), f.order_id>>})

DoneGuard(c) == Contains(flags[c], {ORDERS})

\* Mutant: a canceled order is dropped from the order map.
ArmDoneUntracks(c, f) ==
    IF ~f.decodes THEN Untouched(c, "Err")
    ELSE
      LET ts == ConvertStrTimestamp(f.time)
      IN  IF ~ts.ok THEN Untouched(c, "Err")
          ELSE IF f.reason # "canceled" THEN Untouched(c, "Ok")
          ELSE IF f.order_id \notin DOMAIN orders[c] THEN Untouched(c, "Ok")
          ELSE Outcome("Ok", state[c],
                       [k \in DOMAIN orders[c] \ {f.order_id} |-> orders[c][k]],
                       registry,
                       <<OrderExpiration(orders[c][f.order_id].order_id, ts.val)>>,
                       <<f.order_id>>, {})

\* Mutant: a canceled order's id is dropped from the registry.
ArmDoneForgets(c, f) ==
    IF ~f.decodes THEN Untouched(c, "Err")
    ELSE
      LET ts == ConvertStrTimestamp(f.time)
      IN  IF ~ts.ok THEN Untouched(c, "Err")
          ELSE IF f.reason # "canceled" THEN Untouched(c, "Ok")
          ELSE IF f.order_id \notin DOMAIN orders[c] THEN Untouched(c, "Ok")
          ELSE Outcome("Ok", state[c], orders[c],
                       [registry EXCEPT ![orders[c][f.order_id].order_id] = None],
                       <<OrderExpiration(orders[c][f.order_id].order_id, ts.val)>>,
                       <<f.order_id>>, {})

\* Mutant: the reason is not looked at.
ArmDoneAnyReason(c, f) ==
    IF ~f.decodes THEN Untouched(c, "Err")
    ELSE
      LET ts == ConvertStrTimestamp(f.time)
      IN  IF ~ts.ok THEN Untouched(c, "Err")
          ELSE IF f.order_id \notin DOMAIN orders[c] THEN Untouched(c, "Ok")
          ELSE Outcome("Ok", state[c], orders[c], registry,
                       <<OrderExpiration(orders[c][f.order_id].order_id, ts.val)>>,
                       <<f.order_id>>, {})

ArmDone(c, f) ==
    IF ~f.decodes THEN Untouched(c, "Err")
    ELSE
      LET ts == ConvertStrTimestamp(f.time)
      IN  IF ~ts.ok THEN Untouched(c, "Err")
          ELSE IF f.reason # "canceled" THEN Untouched(c, "Ok")
          ELSE IF f.order_id \notin DOMAIN orders[c] THEN Untouched(c, "Ok")
          ELSE Outcome("Ok", state[c], orders[c], registry,
                       <<OrderExpiration(orders[c][f.order_id].order_id, ts.val)>>,
                       <<f.order_id>>, {})

\* Mutant: an error frame is logged and skipped.
ArmErrorSkipped(c, f) == Untouched(c, "Ok")

\* Both outcomes are an Err: the payload fails to decode (`?`), or it
\* decodes and the arm bails.
ArmError(c, f) == IF ~f.decodes THEN Untouched(c, "Err") ELSE Untouched(c, "Err")

\* Mutant: a tag the handler does not know is a protocol error.
ArmDefaultStrict(c, f) == Untouched(c, "Err")

\* The `_ => ()` arm.
ArmDefault(c, f) == Untouched(c, "Ok")

ParseMessage(c, f) ==
    IF ~f.envelope THEN Untouched(c, "Err")
    ELSE IF f.type = "subscribe" THEN ArmSubscribe(c, f)
    ELSE IF f.type = "snapshot" /\ SnapshotGuard(c) THEN ArmSnapshot(c, f)
    ELSE IF f.type = "l2update" /\ L2UpdateGuard(c) THEN ArmL2Update(c, f)
    ELSE IF f.type = "match" /\ MatchGuard(c) THEN ArmMatch(c, f)
    ELSE IF f.type = "received" /\ ReceivedGuard(c) THEN ArmReceived(c, f)
    ELSE IF f.type = "done" /\ DoneGuard(c) THEN ArmDone(c, f)
    ELSE IF f.type = "error" THEN ArmError(c, f)
    ELSE ArmDefault(c, f)

\* Mutant: notifications are put at the head of the channel.
SendFirst(chan, notifs) == notifs \o chan

\* out.unbounded_send, for the notifications of one frame in the order
\* parse_message sends them: the channel is a FIFO queue.
Send(chan, notifs) == chan \o notifs

\* Mutant: the error is logged and the connection keeps reading.
AfterResultKeepsReading(res) == "open"

\* An error returned by the handler tears the connection down.
AfterResult(res) == IF res = "Err" THEN "closed" ELSE "open"

\* ------------------------------------------------------------ on_open
\* Option<Keys> of the client: the credentials the exchange issued, and
\* credentials whose secret the signer rejects.
GoodKeys == [api_key |-> "key", secret_key |-> "secret", pass_phrase |-> "phrase"]
BadKeys == [api_key |-> "key", secret_key |-> "unusable", pass_phrase |-> "phrase"]
\* Option<T>: None is the empty sequence, Some(x) the sequence of x.
Absent == <<>>
Some(x) == <<x>>
KeyOptions == {Absent, Some(GoodKeys), Some(BadKeys)}

\* timestamp_ms() / 1000 at the time of the call.
Clock == {1, 2}

\* Signer::new(..), update(..), sign_to_vec() and base64::encode: the
\* HMAC-SHA256 of "<timestamp>GET/users/self/verify" under the secret,
\* or a failure (each step is unwrapped, so a failure is a panic).
Sign(secret, ts) ==
    IF secret = "unusable" THEN [ok |-> FALSE, val |-> <<>>]
    ELSE [ok |-> TRUE, val |-> <<"hmac", secret, ts, "GET/users/self/verify">>]

\* The channels every request starts with.
PublicChannels == <<"level2", "matches", "heartbeat">>

\* Mutant: the private channel is requested by every connection.
SubscriptionAlwaysUser(k, ts) ==
    [type |-> "subscribe",
     channels |-> Append(PublicChannels, "user"),
     auth |-> IF k = Absent THEN Absent
              ELSE Some([key |-> k[1].api_key,
                         signature |-> Sign(k[1].secret_key, ts).val,
                         timestamp |-> ts, passphrase |-> k[1].pass_phrase])]

\* The GdaxSubscription built for a client holding k (whose secret
\* signs) at time ts.
Subscription(k, ts) ==
    [type |-> "subscribe",
     channels |-> IF k = Absent THEN PublicChannels ELSE Append(PublicChannels, "user"),
     auth |-> IF k = Absent THEN Absent
              ELSE Some([key |-> k[1].api_key,
                         signature |-> Sign(k[1].secret_key, ts).val,
                         timestamp |-> ts, passphrase |-> k[1].pass_phrase])]

\* ------------------------------------------------------------ actions
NoFrame == [type |-> "none"]

\* The connections a client has spawned, each with the flags it was
\* asked for; a connection that was never spawned handles nothing.
NewStream(c, fl) ==
    [flags |-> fl, state |-> NotSubscribed, orders |-> <<>>, open |-> "connecting"]

\* The client holds credentials ks and has spawned the connections cs.
Start(ks, cs) ==
    /\ clientKeys = ks
    /\ open = [c \in Conns |-> IF c \in cs THEN NewStream(c, flags[c]).open ELSE "none"]
    /\ state = [c \in Conns |-> NewStream(c, flags[c]).state]
    /\ orders = [c \in Conns |-> NewStream(c, flags[c]).orders]
    /\ out = [c \in Conns |-> <<>>]
    /\ sent = [c \in Conns |-> <<>>]
    /\ src = [c \in Conns |-> <<>>]
    /\ nframes = [c \in Conns |-> 0]
    /\ registry = [k \in RegKeys |-> None]
    /\ written = {}
    /\ last = [op |-> "init", conn |-> 0, frame |-> NoFrame, res |-> "Ok", base |-> 0,
               was |-> NotSubscribed]

\* Mutant: the order map belongs to the client, every handler sees it.
StoreOrdersInClient(ords, c, new) == [d \in Conns |-> new]

\* `orders` is a field of the connection's own HandlerImpl, created empty
\* by new_stream: writing it touches no other connection.
StoreOrders(ords, c, new) == [ords EXCEPT ![c] = new]

Init ==
    /\ flags \in [Conns -> SUBSET AllFlags]
    /\ flags[2] = {}
    /\ Start(Absent, {1})

\* on_open at time ts: the subscription request is sent, unless signing
\* panics, which ends the connection thread before anything is sent.
OnOpen(c, ts) ==
    /\ open[c] = "connecting"
    /\ IF clientKeys # Absent /\ ~Sign(clientKeys[1].secret_key, ts).ok
       THEN /\ open' = [open EXCEPT ![c] = "closed"]
            /\ sent' = sent
            /\ last' = [op |-> "open", conn |-> c, frame |-> NoFrame, res |-> "Panic",
                        base |-> 0, was |-> NotSubscribed]
       ELSE /\ open' = [open EXCEPT ![c] = "open"]
            /\ sent' = [sent EXCEPT ![c] = Append(@, Subscription(clientKeys, ts))]
            /\ last' = [op |-> "open", conn |-> c, frame |-> NoFrame, res |-> "Ok",
                        base |-> 0, was |-> NotSubscribed]
    /\ UNCHANGED <<flags, state, orders, out, registry, nframes, src, written, clientKeys>>

OnMessage(c, f) ==
    /\ open[c] = "open"
    /\ nframes[c] < MaxFrames
    /\ LET r == ParseMessage(c, f)
       IN  /\ state' = [state EXCEPT ![c] = r.state]
           /\ orders' = StoreOrders(orders, c, r.orders)
           /\ registry' = r.registry
           /\ out' = [out EXCEPT ![c] = Send(out[c], r.emit)]
           /\ src' = [src EXCEPT ![c] = Send(src[c],
                        [i \in 1..Len(r.emit) |->
                            [frame |-> nframes[c] + 1, key |-> r.keys[i]]])]
           /\ open' = [open EXCEPT ![c] = AfterResult(r.res)]
           /\ written' = written \cup
                {[by |-> "wss", key |-> p[1], val |-> p[2]] : p \in r.ins}
           /\ last' = [op |-> "frame", conn |-> c, frame |-> f, res |-> r.res,
                       base |-> Len(out[c]), was |-> state[c]]
    /\ nframes' = [nframes EXCEPT ![c] = @ + 1]
    /\ UNCHANGED <<flags, clientKeys, sent>>

\* The REST order response: the exchange id of the order placed under
\* client id k is now known.
RestInsert(k, v) ==
    /\ registry' = Insert(registry, k, v)
    /\ written' = written \cup {[by |-> "rest", key |-> k, val |-> v]}
    /\ last' = [op |-> "rest", conn |-> 0,
                frame |-> [type |-> "insert", key |-> k, val |-> v],
                res |-> "Ok", base |-> 0, was |-> NotSubscribed]
    /\ UNCHANGED <<flags, state, orders, out, open, nframes, src, clientKeys, sent>>

Next ==
    \/ \E c \in Conns, ts \in Clock : OnOpen(c, ts)
    \/ \E c \in Conns, f \in Frames : OnMessage(c, f)
    \/ \E p \in RestPairs : RestInsert(p[1], p[2])

Spec == Init /\ [][Next]_vars

\* One connection of a client with or without credentials, fed the frames
\* that follow a subscription request.
OpenFrames ==
    { SubscribeFrame, OtherFrame, ErrorFrame("boom", None),
      Received(T1, "abc", "srv1", S1, P50, "buy") }

InitOpen ==
    /\ flags \in [Conns -> SUBSET AllFlags]
    /\ flags[2] = {}
    /\ \E ks \in KeyOptions : Start(ks, {1})

NextOpen ==
    \/ \E c \in Conns, ts \in Clock : OnOpen(c, ts)
    \/ \E c \in Conns, f \in OpenFrames : OnMessage(c, f)

SpecOpen == InitOpen /\ [][NextOpen]_vars

\* Two connections spawned by one client, both asked for order
\* notifications, fed the frames of one order's life.
TwoFrames ==
    { SubscribeFrame,
      Received(T1, "abc", "srv1", S1, P50, "buy"),
      Match(T1, S04, P50, "sell", "srv1", "srv2", "me"),
      Done("canceled", "srv1", T1) }

InitTwo ==
    /\ flags \in [Conns -> {{ORDERS}, AllFlags}]
    /\ Start(Absent, Conns)

NextTwo ==
    \/ \E c \in Conns, ts \in Clock : OnOpen(c, ts)
    \/ \E c \in Conns, f \in TwoFrames :
            nframes[c] < MaxFramesTwo /\ OnMessage(c, f)

SpecTwo == InitTwo /\ [][NextTwo]_vars

\* ==================================================================
\* Properties
\* ==================================================================
Handled(tp) == last.op = "frame" /\ last.frame.type = tp

\* The notifications the last frame put on its connection's channel.
LastEmitted == SubSeq(out[last.conn], last.base + 1, Len(out[last.conn]))

\* A "match" frame every field of which decodes and converts.
WellFormedMatch(f) ==
    /\ f.decodes /\ f.time.ok /\ f.side \in {"buy", "sell"}
    /\ f.size.ok /\ f.size.scale <= SizeScale
    /\ f.price.ok /\ f.price.scale <= PriceScale

SideOf(sd) == IF sd = "buy" THEN "Bid" ELSE "Ask"

\* Ticks of a wire decimal d at `scale` digits: d.mant / 10^d.scale in
\* units of 10^-scale.
Ticks(d, scale) == (d.mant * Pow10(scale)) \div Pow10(d.scale)

KindsFor(fl) ==
    (IF ORDER_BOOK \in fl THEN {"LimitUpdates"} ELSE {})
    \cup (IF TRADES \in fl THEN {"Trade"} ELSE {})
    \cup (IF ORDERS \in fl
          THEN {"OrderConfirmation", "OrderUpdate", "OrderExpiration"} ELSE {})

\* C1: on a connection opened with flags F, a LimitUpdates is emitted only
\* if ORDER_BOOK is in F, a Trade only if TRADES is in F, an
\* OrderConfirmation, OrderUpdate or OrderExpiration only if ORDERS is in
\* F; with F = {ORDER_BOOK} a "match" frame emits nothing.
C1_FlagsFilter ==
    /\ \A c \in Conns : \A i \in 1..Len(out[c]) : out[c][i].kind \in KindsFor(flags[c])
    /\ (Handled("match") /\ flags[last.conn] = {ORDER_BOOK}) => LastEmitted = <<>>

C1_Witness ==
    /\ Handled("match") /\ WellFormedMatch(last.frame)
    /\ flags[1] = {ORDER_BOOK} /\ last.res = "Ok"
    /\ \E i \in 1..Len(out[1]) : out[1][i].kind = "LimitUpdates"

\* C2 (as claimed): whenever TRADES is set, whether or not ORDERS is, a
\* well-formed "match" frame emits exactly one Trade carrying the frame's
\* converted price, size and side.
C2_TradeWheneverTrades ==
    (Handled("match") /\ TRADES \in flags[last.conn] /\ WellFormedMatch(last.frame))
    => LET f == last.frame
           trades == {i \in 1..Len(LastEmitted) : LastEmitted[i].kind = "Trade"}
       IN  /\ Cardinality(trades) = 1
           /\ \A i \in trades :
                /\ LastEmitted[i].price = Ticks(f.price, PriceScale)
                /\ LastEmitted[i].size = Ticks(f.size, SizeScale)
                /\ LastEmitted[i].maker_side = SideOf(f.side)

\* C3 (as claimed): whenever ORDERS is set, whether or not TRADES is, a
\* well-formed "match" frame with an account marker whose taker or maker
\* order id is a key of the order map emits an OrderUpdate for that
\* tracked order and decrements its tracked size by the trade size.
C3_UpdateWheneverOrders ==
    [][\A c \in Conns :
        (/\ nframes'[c] = nframes[c] + 1
         /\ last'.frame.type = "match" /\ WellFormedMatch(last'.frame)
         /\ ORDERS \in flags[c] /\ last'.frame.profile_id # None)
        => \A k \in {last'.frame.taker_order_id, last'.frame.maker_order_id}
                    \cap DOMAIN orders[c] :
             /\ \E i \in (Len(out[c]) + 1)..Len(out'[c]) :
                  /\ out'[c][i].kind = "OrderUpdate"
                  /\ out'[c][i].order_id = orders[c][k].order_id
                  /\ src'[c][i].key = k
             /\ orders'[c][k].size =
                  orders[c][k].size - Ticks(last'.frame.size, SizeScale)]_vars

IsUpdateOf(c, i, k) == out[c][i].kind = "OrderUpdate" /\ src[c][i].key = k
IsConfirmationOf(c, i, k) == out[c][i].kind = "OrderConfirmation" /\ src[c][i].key = k

\* The consumed_size of the OrderUpdates of the order tracked under k, at
\* the positions lo..hi of connection c's channel, summed.
RECURSIVE SumConsumed(_, _, _, _)
SumConsumed(c, k, lo, hi) ==
    IF lo > hi THEN 0
    ELSE (IF IsUpdateOf(c, hi, k) THEN out[c][hi].consumed_size ELSE 0)
         + SumConsumed(c, k, lo, hi - 1)

ConfirmationsBefore(c, i, k) == {j \in 1..(i - 1) : IsConfirmationOf(c, j, k)}

Latest(S) == CHOOSE x \in S : \A y \in S : y <= x

C5_NeverNegative ==
    \A c \in Conns :
        /\ \A i \in 1..Len(out[c]) :
             out[c][i].kind = "OrderUpdate" => out[c][i].remaining_size >= 0
        /\ \A k \in DOMAIN orders[c] : orders[c][k].size >= 0

ValuesWritten(k) == {w.val : w \in {x \in written : x.key = k}}

C8_EntryNeverChanges ==
    [][\A k \in RegKeys :
        Lookup(registry, k) # None => Lookup(registry', k) = Lookup(registry, k)]_vars

\* C8 (amended): once client_id is in the registry it stays in it: no
\* frame and no later operation removes the entry, and a lookup returns
\* the exchange id of the latest insert for client_id, which differs from
\* the earlier one only when a later "received" frame or REST response
\* inserts client_id with another exchange id.
C8_EntryNeverRemoved ==
    [][\A k \in RegKeys :
        Lookup(registry, k) # None
        => /\ Lookup(registry', k) # None
           /\ Lookup(registry', k) # Lookup(registry, k)
              => \/ /\ last'.op = "rest"
                    /\ last'.frame.key = k /\ last'.frame.val = registry'[k]
                 \/ /\ last'.op = "frame" /\ last'.frame.type = "received"
                    /\ last'.res = "Ok"
                    /\ k = (IF last'.frame.client_oid # None
                            THEN last'.frame.client_oid ELSE last'.frame.order_id)
                    /\ last'.frame.order_id = registry'[k]]_vars

C8_Witness ==
    /\ Handled("done") /\ last.res = "Ok" /\ Len(LastEmitted) = 1
    /\ [by |-> "wss", key |-> "abc", val |-> "srv1"] \in written
    /\ Lookup(registry, "abc") = "srv1"

\* C9: SubscriptionState starts as NotSubscribed, its only transition is
\* NotSubscribed -> Subscribed on a "subscribe" frame, and a "subscribe"
\* frame received while Subscribed leaves the state Subscribed, emits
\* nothing and returns success, the connection staying open.
C9_Subscription ==
    [][\A c \in Conns :
        /\ nframes[c] = 0 => state[c] = NotSubscribed
        /\ state'[c] # state[c]
           => /\ state[c] = NotSubscribed /\ state'[c] = Subscribed
              /\ last'.op = "frame" /\ last'.conn = c
              /\ last'.frame.type = "subscribe"
        /\ (nframes'[c] = nframes[c] + 1 /\ last'.frame.type = "subscribe")
           => /\ state'[c] = Subscribed
              /\ state[c] = Subscribed
                 => /\ out'[c] = out[c]
                    /\ last'.res = "Ok"
                    /\ open'[c] = open[c]]_vars

C9_Witness ==
    /\ Handled("subscribe") /\ last.was = Subscribed
    /\ state[1] = Subscribed /\ last.res = "Ok" /\ open[1] = "open"

\* C10: with ORDERS set, a well-formed "done" frame emits exactly one
\* OrderExpiration, carrying the resolved id of the tracked order, if and
\* only if its reason is "canceled" and its order_id is a key of the order
\* map; otherwise it emits nothing; either way parse_message succeeds.
C10_Done ==
    [][\A c \in Conns :
        (/\ nframes'[c] = nframes[c] + 1
         /\ last'.frame.type = "done" /\ ORDERS \in flags[c]
         /\ last'.frame.decodes /\ last'.frame.time.ok)
        => LET f == last'.frame
           IN  /\ last'.res = "Ok"
               /\ IF f.reason = "canceled" /\ f.order_id \in DOMAIN orders[c]
                  THEN out'[c] = Append(out[c],
                          [kind |-> "OrderExpiration",
                           order_id |-> orders[c][f.order_id].order_id,
                           timestamp |-> f.time.sec * 1000])
                  ELSE out'[c] = out[c]]_vars

C10_Witness ==
    /\ Handled("done") /\ last.res = "Ok" /\ ORDERS \in flags[1]
    /\ last.frame.reason = "canceled"
    /\ LastEmitted = <<[kind |-> "OrderExpiration", order_id |-> "abc",
                        timestamp |-> 1000]>>

\* C11: for every flags value and every subscription state, an "error"
\* frame of any shape makes parse_message return an error and emit no
\* notification.
C11_ErrorFrame ==
    Handled("error") => (last.res = "Err" /\ LastEmitted = <<>>)

C11_Witness ==
    /\ Handled("error") /\ ~last.frame.decodes /\ last.res = "Err"
    /\ last.was = Subscribed /\ flags[1] = AllFlags /\ Len(out[1]) > 0

\* C12: on one connection the notifications are in the channel in the
\* arrival order of the frames that produced them: a frame only appends
\* to what the earlier frames put there, and what it appends is its own.
C12_ArrivalOrder ==
    [][\A c \in Conns :
        /\ \A i \in 1..Len(out[c]) : src[c][i].frame <= nframes[c]
        /\ Len(out'[c]) >= Len(out[c])
        /\ SubSeq(out'[c], 1, Len(out[c])) = out[c]
        /\ SubSeq(src'[c], 1, Len(src[c])) = src[c]
        /\ \A i \in (Len(out[c]) + 1)..Len(out'[c]) :
             /\ nframes'[c] = nframes[c] + 1
             /\ src'[c][i].frame = nframes'[c]]_vars

C12_Witness ==
    /\ Len(out[1]) >= 3
    /\ src[1][1].frame = 1 /\ src[1][2].frame = 2 /\ src[1][3].frame = 2
    /\ out[1][1].kind = "OrderConfirmation" /\ out[1][2].kind = "OrderUpdate"
    /\ out[1][3].kind = "Trade"

NotificationKinds ==
    {"Trade", "LimitUpdates", "OrderConfirmation", "OrderUpdate", "OrderExpiration"}

\* C13: after the message handler of a connection returns an error, the
\* connection is closed and emits no further notification, and nothing
\* but the five kinds of Notification is ever on its channel.
C13_NothingAfterError ==
    [][\A c \in Conns :
        /\ (nframes'[c] = nframes[c] + 1 /\ last'.res = "Err")
           => open'[c] = "closed"
        /\ open[c] = "closed" => (open'[c] = "closed" /\ out'[c] = out[c])
        /\ \A i \in 1..Len(out'[c]) : out'[c][i].kind \in NotificationKinds]_vars

C13_Witness ==
    /\ open[1] = "closed" /\ Len(out[1]) > 0 /\ nframes[1] < MaxFrames
    /\ last.op = "rest"

\* A price/size level of the wire that converts to ticks.
GoodLevel(l) ==
    /\ l.price.ok /\ l.price.scale <= PriceScale
    /\ l.size.ok /\ l.size.scale <= SizeScale

LevelOf(l, side) ==
    [side |-> side, price |-> Ticks(l.price, PriceScale),
     size |-> Ticks(l.size, SizeScale)]

\* C16: with ORDER_BOOK set, a well-formed "snapshot" frame emits exactly
\* one LimitUpdates batch: one entry per level, the bid levels in frame
\* order with side Bid, then the ask levels in frame order with side Ask,
\* prices and sizes in ticks.
C16_Snapshot ==
    (/\ Handled("snapshot") /\ ORDER_BOOK \in flags[last.conn]
     /\ last.frame.decodes
     /\ \A i \in 1..Len(last.frame.bids) : GoodLevel(last.frame.bids[i])
     /\ \A i \in 1..Len(last.frame.asks) : GoodLevel(last.frame.asks[i]))
    => LET f == last.frame
           nb == Len(f.bids)
       IN  LastEmitted =
             <<[kind |-> "LimitUpdates",
                updates |-> [i \in 1..(nb + Len(f.asks)) |->
                               IF i <= nb THEN LevelOf(f.bids[i], "Bid")
                               ELSE LevelOf(f.asks[i - nb], "Ask")]]>>

C16_Witness ==
    /\ Handled("snapshot") /\ last.res = "Ok"
    /\ Len(last.frame.bids) = 2 /\ Len(last.frame.asks) = 2
    /\ Len(LastEmitted) = 1 /\ Len(LastEmitted[1].updates) = 4
    /\ LastEmitted[1].updates[1] = [side |-> "Bid", price |-> 10100, size |-> 30]

UpdatesAmong(notifs) == SelectSeq(notifs, LAMBDA n : n.kind = "OrderUpdate")

\* C17 (as claimed): with ORDERS set, a "match" frame with an account
\* marker whose taker and maker are two different tracked orders emits
\* exactly two OrderUpdates, the taker's then the maker's, and decrements
\* each order's tracked size by the trade size once.
C17_SelfTrade ==
    [][\A c \in Conns :
        LET f == last'.frame
        IN  (/\ nframes'[c] = nframes[c] + 1
             /\ f.type = "match" /\ WellFormedMatch(f)
             /\ ORDERS \in flags[c] /\ f.profile_id # None
             /\ f.taker_order_id \in DOMAIN orders[c]
             /\ f.maker_order_id \in DOMAIN orders[c]
             /\ f.taker_order_id # f.maker_order_id)
            => LET ups == UpdatesAmong(SubSeq(out'[c], Len(out[c]) + 1, Len(out'[c])))
                   t == f.taker_order_id
                   m == f.maker_order_id
                   sz == Ticks(f.size, SizeScale)
               IN  /\ Len(ups) = 2
                   /\ ups[1].order_id = orders[c][t].order_id
                   /\ ups[2].order_id = orders[c][m].order_id
                   /\ orders'[c][t].size = orders[c][t].size - sz
                   /\ orders'[c][m].size = orders[c][m].size - sz]_vars

KnownTags ==
    {"subscribe", "snapshot", "l2update", "match", "received", "done", "error"}

\* C18: a frame whose type tag is none of subscribe, snapshot, l2update,
\* match, received, done, error is ignored: parse_message succeeds, emits
\* nothing, and SubscriptionState, the order map and the registry stay as
\* they were.
C18_UnknownTag ==
    [][\A c \in Conns :
        (/\ nframes'[c] = nframes[c] + 1
         /\ last'.frame.envelope /\ last'.frame.type \notin KnownTags)
        => /\ last'.res = "Ok" /\ open'[c] = open[c]
           /\ out'[c] = out[c] /\ state'[c] = state[c]
           /\ orders'[c] = orders[c] /\ registry' = registry]_vars

C18_Witness ==
    /\ last.op = "frame" /\ last.frame.envelope /\ last.frame.type \notin KnownTags
    /\ last.res = "Ok" /\ state[1] = Subscribed
    /\ DOMAIN orders[1] # {} /\ Len(out[1]) > 0

\* The arm of tag tp is switched off by the flags fl.
GatedOff(tp, fl) ==
    \/ tp \in {"snapshot", "l2update"} /\ ORDER_BOOK \notin fl
    \/ tp = "match" /\ TRADES \notin fl /\ ORDERS \notin fl
    \/ tp \in {"received", "done"} /\ ORDERS \notin fl

\* C20: a frame tagged snapshot, l2update, match, received or done whose
\* gating flag is not set is not decoded past its envelope: even with a
\* malformed payload parse_message succeeds, emits nothing and changes no
\* state.
C20_GatedOffNotDecoded ==
    [][\A c \in Conns :
        (/\ nframes'[c] = nframes[c] + 1
         /\ last'.frame.envelope /\ GatedOff(last'.frame.type, flags[c]))
        => /\ last'.res = "Ok" /\ open'[c] = open[c]
           /\ out'[c] = out[c] /\ state'[c] = state[c]
           /\ orders'[c] = orders[c] /\ registry' = registry]_vars

C20_Witness ==
    /\ last.op = "frame" /\ last.frame.type = "match" /\ ~last.frame.decodes
    /\ flags[1] = {ORDER_BOOK} /\ last.res = "Ok" /\ open[1] = "open"
    /\ Len(out[1]) > 0

ChannelsOf(m) == {m.channels[i] : i \in 1..Len(m.channels)}

\* C14 (as claimed): the subscription request on_open sends asks for the
\* level2 channel only if ORDER_BOOK is set and for the matches channel
\* only if TRADES or ORDERS is set.
C14_ChannelsFollowFlags ==
    \A c \in Conns : \A i \in 1..Len(sent[c]) :
        /\ "level2" \in ChannelsOf(sent[c][i]) => ORDER_BOOK \in flags[c]
        /\ "matches" \in ChannelsOf(sent[c][i])
           => (TRADES \in flags[c] \/ ORDERS \in flags[c])

\* C15: a subscription request sent by on_open has the "user" channel and
\* the authentication block (key, signature over the timestamp, timestamp,
\* passphrase) if and only if the client holds credentials; a client whose
\* credentials do not sign sends no request at all.
C15_AuthIffCredentials ==
    \A c \in Conns :
        /\ \A i \in 1..Len(sent[c]) :
             LET m == sent[c][i]
             IN  /\ "user" \in ChannelsOf(m) <=> clientKeys # Absent
                 /\ m.auth # Absent <=> clientKeys # Absent
                 /\ clientKeys # Absent
                    => /\ DOMAIN m.auth[1] = {"key", "signature", "timestamp", "passphrase"}
                       /\ m.auth[1].key = clientKeys[1].api_key
                       /\ m.auth[1].passphrase = clientKeys[1].pass_phrase
                       /\ m.auth[1].timestamp \in Clock
                       /\ m.auth[1].signature =
                            <<"hmac", clientKeys[1].secret_key, m.auth[1].timestamp,
                              "GET/users/self/verify">>
        /\ clientKeys = Some(BadKeys)
           => (sent[c] = <<>> /\ open[c] \in {"none", "connecting", "closed"})
        /\ open[c] = "open" => Len(sent[c]) = 1

C15_Witness ==
    /\ clientKeys = Some(GoodKeys) /\ Len(sent[1]) = 1 /\ sent[1][1].auth # Absent
    /\ "user" \in ChannelsOf(sent[1][1])
    /\ Handled("received") /\ last.res = "Ok"

\* The notifications about a tracked order.
OrderNotices(notifs) ==
    SelectSeq(notifs, LAMBDA n : n.kind \in {"OrderUpdate", "OrderExpiration"})

\* C19: two connections of one client share the registry and nothing
\* else: a frame handled on connection a leaves the SubscriptionState,
\* the order map and the channel of the other connection b as they were;
\* the id mapping a "received" frame on a writes is in the one registry b
\* reads; and a "match" or "done" frame on b for an order that only a
\* tracks emits no OrderUpdate and no OrderExpiration on b.
C19_OnlyRegistryShared ==
    [][\A a \in Conns : \A b \in Conns \ {a} :
        LET f == last'.frame
        IN  /\ nframes'[a] = nframes[a] + 1
               => /\ state'[b] = state[b] /\ orders'[b] = orders[b]
                  /\ out'[b] = out[b] /\ open'[b] = open[b]
            /\ (/\ nframes'[a] = nframes[a] + 1
                /\ f.type = "received" /\ last'.res = "Ok" /\ ORDERS \in flags[a])
               => /\ f.order_id \in DOMAIN orders'[a]
                  /\ Lookup(registry', f.client_oid) = f.order_id
            /\ (/\ nframes'[b] = nframes[b] + 1
                /\ f.type = "match"
                /\ {f.taker_order_id, f.maker_order_id} \cap DOMAIN orders[b] = {})
               => OrderNotices(SubSeq(out'[b], Len(out[b]) + 1, Len(out'[b]))) = <<>>
            /\ (/\ nframes'[b] = nframes[b] + 1
                /\ f.type = "done" /\ f.order_id \notin DOMAIN orders[b])
               => out'[b] = out[b]]_vars

C19_Witness ==
    /\ state[1] = Subscribed /\ state[2] = NotSubscribed
    /\ "srv1" \in DOMAIN orders[1] /\ orders[2] = <<>>
    /\ Lookup(registry, "abc") = "srv1"
    /\ flags[2] = AllFlags
    /\ last.op = "frame" /\ last.conn = 2 /\ last.frame.type = "match"
    /\ last.res = "Ok" /\ Len(LastEmitted) = 1 /\ LastEmitted[1].kind = "Trade"

\* C21 (as claimed): whenever parse_message returns an error for a frame,
\* the frame has emitted no notification and has left the order map and
\* the registry as they were, for every frame type, a "match" frame with
\* TRADES and ORDERS set and an invalid side included.
C21_ErrorLeavesNoTrace ==
    [][\A c \in Conns :
        (nframes'[c] = nframes[c] + 1 /\ last'.res = "Err")
        => /\ out'[c] = out[c]
           /\ orders'[c] = orders[c]
           /\ registry' = registry]_vars

\* C22: on one connection every OrderUpdate and every OrderExpiration
\* carries an order_id that an OrderConfirmation emitted earlier on the
\* same connection carried.
C22_ConfirmedFirst ==
    \A c \in Conns : \A i \in 1..Len(out[c]) :
        out[c][i].kind \in {"OrderUpdate", "OrderExpiration"}
        => \E j \in 1..(i - 1) :
             /\ out[c][j].kind = "OrderConfirmation"
             /\ out[c][j].order_id = out[c][i].order_id

C22_Witness ==
    /\ Len(out[1]) = 4
    /\ out[1][1].kind = "OrderConfirmation" /\ out[1][1].order_id = "abc"
    /\ out[1][2].kind = "OrderUpdate" /\ out[1][2].order_id = "abc"
    /\ out[1][4].kind = "OrderExpiration" /\ out[1][4].order_id = "abc"
    /\ src[1][2].key = "srv1"

\* An order-map entry but for its size.
Unsized(o) == [order_id |-> o.order_id, price |-> o.price, side |-> o.side]

\* C23: only "received" frames add or replace entries of the order map
\* and of the registry, and a frame that is not a "received" changes
\* nothing of a tracked order but its size, and that only if it is a
\* "match"; a "done" frame, a "canceled" one that emits OrderExpiration
\* included, leaves the order map as it was; the set of tracked exchange
\* ids never shrinks.
C23_WhoWritesWhat ==
    [][\A c \in Conns :
        nframes'[c] = nframes[c] + 1
        => LET tp == IF last'.frame.envelope THEN last'.frame.type ELSE "" 
           IN  /\ DOMAIN orders[c] \subseteq DOMAIN orders'[c]
               /\ tp # "received"
                  => /\ DOMAIN orders'[c] = DOMAIN orders[c]
                     /\ registry' = registry
                     /\ \A k \in DOMAIN orders[c] :
                          Unsized(orders'[c][k]) = Unsized(orders[c][k])
               /\ tp \notin {"received", "match"} => orders'[c] = orders[c]
               /\ (tp = "received" /\ last'.res = "Ok")
                  => \A k \in DOMAIN orders[c] \ {last'.frame.order_id} :
                       orders'[c][k] = orders[c][k]]_vars

C23_Witness ==
    /\ Handled("done") /\ last.frame.reason = "canceled" /\ last.res = "Ok"
    /\ Len(LastEmitted) = 1 /\ LastEmitted[1].kind = "OrderExpiration"
    /\ last.frame.order_id \in DOMAIN orders[1]
    /\ \E i \in 1..last.base : out[1][i].kind = "OrderUpdate"

DataTags == {"snapshot", "l2update", "match", "received", "done"}

\* C24: the notifications emitted do not depend on SubscriptionState.  A
\* "subscribe" frame succeeds and changes nothing but SubscriptionState,
\* no other frame changes SubscriptionState, and in the state a
\* "subscribe" frame leaves behind every data frame has the result, the
\* notifications, the order map and the registry it has in the state
\* before it; so two runs over the same frames that differ only in where
\* "subscribe" frames are inserted emit the same notifications and end
\* with the same order map and registry.
C24_StateBlind ==
    [][\A c \in Conns :
        nframes'[c] = nframes[c] + 1
        => LET sub == last'.frame.envelope /\ last'.frame.type = "subscribe"
           IN  /\ sub => /\ last'.res = "Ok" /\ open'[c] = open[c]
                         /\ out'[c] = out[c] /\ orders'[c] = orders[c]
                         /\ registry' = registry
               /\ ~sub => state'[c] = state[c]
               /\ state'[c] # state[c]
                  => \A g \in {h \in Frames : h.type \in DataTags} :
                       /\ [ParseMessage(c, g)' EXCEPT !.state = Subscribed]
                            = [ParseMessage(c, g) EXCEPT !.state = Subscribed]
                       /\ ParseMessage(c, g)'.state = state'[c]
                       /\ ParseMessage(c, g).state = state[c]]_vars

C24_Witness ==
    /\ Handled("match") /\ last.was = Subscribed /\ last.res = "Ok"
    /\ Len(LastEmitted) = 2 /\ last.base = 1
    /\ out[1][1].kind = "OrderConfirmation" /\ src[1][1].frame = 1
    /\ src[1][2].frame = 3

====
